---- MODULE Spec2Model ----
(***************************************************************************)
(* A model of seatallocator.py: the guaranteed stage of __main__, then     *)
(* _allocatePriority, then _allocateSecondary (rationing loop, Limited     *)
(* View pass, Screen Only pass), then the output sort and collapse.        *)
(* Every loop iteration of the script is one action; pc and i give the     *)
(* position of the single thread of control.                               *)
(***************************************************************************)
EXTENDS Integers, Sequences, FiniteSets

(* ------------------------------ constants ------------------------------ *)

PRIORITY == "Priority"

LIMITED_VIEW == "Limited View"

SCREEN_ONLY == "Screen Only"

LOCATIONS == {PRIORITY, LIMITED_VIEW, SCREEN_ONLY}

GUARANTEED_PRIORITY == 7

(* ------------------------------- bounds -------------------------------- *)

\* mixed lists: the longest list
MaxRequests == 2

\* mixed lists: the largest `regular` (never above GUARANTEED_PRIORITY)
MaxRegular == 2

\* mixed lists: the largest `extra`
MaxExtra == 2

\* mixed lists: the largest starting capacity of each tier
MaxPriority == 2

MaxLimited == 1

MaxScreen == 1

\* lists of one-seat requests that all ask for extras: the longest list
MaxSingles == 3

\* lists of one-seat requests: the largest `extra`
MaxSingleExtra == 3

\* lists of one-seat requests: the largest starting capacity of each tier
MaxSinglePriority == 6

MaxSingleLimited == 3

MaxSingleScreen == 2

VARIABLES
    requests,   \* the list `requests` of SeatRequest objects, in list order
    AVAILABLE,  \* the module-level capacity map, tier -> remaining seats
    capacity,   \* the value of AVAILABLE when the run started
    tickets,    \* _allocateSecondary's defaultdict, keyed by studentID
    remaining,  \* _allocateSecondary's running counter
    given,      \* tickets handed out in the current sweep
    pc,         \* the stage in control
    i,          \* the index of the for loop in control
    output      \* the rows written to the output file

vars == <<requests, AVAILABLE, capacity, tickets, remaining, given, pc, i, output>>

(* ------------------------------- helpers ------------------------------- *)

\* a variant of SeatAllocation: every allocation is recorded in Priority
SeatAllocationInPriority(seats, location) ==
    [seats |-> seats, location |-> PRIORITY]

\* SeatAllocation.__init__: the object built from valid arguments
SeatAllocation(seats, location) == [seats |-> seats, location |-> location]

\* SeatAllocation.__init__: the assertions on seats and location
SeatAllocationValid(seats, location) == seats > 0 /\ location \in LOCATIONS

\* SeatRequest.__init__: a new request holds no allocation and is unfulfilled
SeatRequest(requestTime, studentID, regular, extra) ==
    [requestTime |-> requestTime, studentID |-> studentID, regular |-> regular,
     extra |-> extra, allocations |-> <<>>, fulfilled |-> FALSE]

\* SeatRequest.__init__: the assertion on regular
SeatRequestValid(regular) == 1 <= regular /\ regular <= GUARANTEED_PRIORITY

\* a variant of allocate: the new allocation replaces the list
allocateReplacing(request, allocation) ==
    [request EXCEPT !.allocations = <<allocation>>]

\* SeatRequest.allocate
allocate(request, allocation) ==
    [request EXCEPT !.allocations = Append(@, allocation)]

RECURSIVE SumSeats(_, _)
\* the loop of collapse: the seats of the allocations in one location
SumSeats(allocations, location) ==
    IF allocations = <<>> THEN 0
    ELSE (IF Head(allocations).location = location
          THEN Head(allocations).seats ELSE 0)
         + SumSeats(Tail(allocations), location)

\* a variant of collapse: each tier's count is overwritten by the allocation
\* read last instead of added to
collapseLast(request) ==
    LET a == request.allocations
        last(loc) ==
            LET S == {j \in 1..Len(a) : a[j].location = loc}
            IN  IF S = {} THEN 0
                ELSE a[CHOOSE j \in S : \A m \in S : m <= j].seats
    IN  <<request.studentID, request.regular, request.extra,
          last(PRIORITY), last(LIMITED_VIEW), last(SCREEN_ONLY)>>

\* SeatRequest.collapse
collapse(request) ==
    <<request.studentID, request.regular, request.extra,
      SumSeats(request.allocations, PRIORITY),
      SumSeats(request.allocations, LIMITED_VIEW),
      SumSeats(request.allocations, SCREEN_ONLY)>>

\* list.sort(key=...): a stable sort, ties keep their list order; keys[k] is
\* the key of s[k]
SortBy(s, keys) ==
    LET n == Len(s)
        rank(j) == 1 + Cardinality({k \in 1..n :
                        \/ keys[k] < keys[j]
                        \/ keys[k] = keys[j] /\ k < j})
    IN  [p \in 1..n |-> s[CHOOSE j \in 1..n : rank(j) = p]]

\* a variant of KeyExtra: the largest extras first
KeyExtraDescending(r) == 0 - r.extra

\* the sort key of _allocatePriority
KeyExtra(r) == r.extra

\* the sort key of _allocateSecondary
KeyRequestTime(r) == r.requestTime

\* the sort key of the output
KeyTotal(r) == r.regular + r.extra

\* a variant of PriorityFits: only asks whether any Priority seat is left
PriorityFitsAnyLeft(request) == AVAILABLE[PRIORITY] > 0

\* the capacity test of _allocatePriority
PriorityFits(request) == AVAILABLE[PRIORITY] >= request.extra

\* a variant of WantsTicket: stops handing out tickets inside a sweep once
\* the running counter is used up
WantsTicketWhileLeft(request) ==
    tickets[request.studentID] < request.extra /\ remaining > 0

\* a variant of WantsTicket: an inclusive comparison
WantsTicketInclusive(request) == tickets[request.studentID] <= request.extra

\* the ticket test of the rationing loop
WantsTicket(request) == tickets[request.studentID] < request.extra

\* a variant of LoopContinues: an inclusive comparison
LoopContinuesAtZero(left) == left >= 0

\* the loop condition of the rationing loop
LoopContinues(left) == left > 0

\* a variant of LimitedFits: compares with the combined secondary capacity
LimitedFitsCombined(request) ==
    AVAILABLE[LIMITED_VIEW] + AVAILABLE[SCREEN_ONLY] >= tickets[request.studentID]

\* the capacity test of the Limited View pass
LimitedFits(request) == AVAILABLE[LIMITED_VIEW] >= tickets[request.studentID]

\* the capacity test of the Screen Only pass
ScreenFits(request) == AVAILABLE[SCREEN_ONLY] >= tickets[request.studentID]

(* -------------------------------- Init --------------------------------- *)

\* the lists __main__ builds: requestTime 0, the student IDs unique, regular
\* valid, extra >= 0
Lists(maxLen, regulars, extras) ==
    UNION {
        { [k \in 1..n |-> SeatRequest(0, k, reg[k], ex[k])] :
            reg \in [1..n -> {v \in regulars : SeatRequestValid(v)}],
            ex \in [1..n -> extras] }
        : n \in 0..maxLen }

\* the starting values of AVAILABLE
Capacities(maxP, maxL, maxS) ==
    { [loc \in LOCATIONS |->
          IF loc = PRIORITY THEN p ELSE IF loc = LIMITED_VIEW THEN l ELSE s] :
        p \in 0..maxP, l \in 0..maxL, s \in 0..maxS }

\* short lists of any valid requests
MixedInput ==
    /\ requests \in Lists(MaxRequests, 1..MaxRegular, 0..MaxExtra)
    /\ AVAILABLE \in Capacities(MaxPriority, MaxLimited, MaxScreen)

\* longer lists of requests for one regular seat and at least one extra
SinglesInput ==
    /\ requests \in Lists(MaxSingles, {1}, 1..MaxSingleExtra)
    /\ AVAILABLE \in Capacities(MaxSinglePriority, MaxSingleLimited, MaxSingleScreen)

Init ==
    /\ MixedInput \/ SinglesInput
    /\ capacity = AVAILABLE
    /\ tickets = [id \in 1..Len(requests) |-> 0]
    /\ remaining = 0
    /\ given = 0
    /\ pc = "guaranteed"
    /\ i = 1
    /\ output = <<>>

(* ------------------------------- actions ------------------------------- *)

\* a variant of Guaranteed: leaves the fulfilled flag of every request alone
GuaranteedNoFlag ==
    /\ pc = "guaranteed"
    /\ i <= Len(requests)
    /\ requests' = [requests EXCEPT ![i] =
           allocate(@, SeatAllocation(@.regular, PRIORITY))]
    /\ AVAILABLE' = [AVAILABLE EXCEPT ![PRIORITY] = @ - requests[i].regular]
    /\ i' = i + 1
    /\ UNCHANGED <<capacity, tickets, remaining, given, pc, output>>

\* a variant of Guaranteed: grants the guaranteed seats only when they fit
GuaranteedChecked ==
    /\ pc = "guaranteed"
    /\ i <= Len(requests)
    /\ LET request == requests[i]
           fits == AVAILABLE[PRIORITY] >= request.regular
       IN  /\ requests' = [requests EXCEPT ![i] =
                   [(IF fits
                     THEN allocate(request, SeatAllocation(request.regular, PRIORITY))
                     ELSE request)
                       EXCEPT !.fulfilled = (request.extra = 0) \/ @]]
           /\ AVAILABLE' = [AVAILABLE EXCEPT ![PRIORITY] =
                   IF fits THEN @ - request.regular ELSE @]
    /\ i' = i + 1
    /\ UNCHANGED <<capacity, tickets, remaining, given, pc, output>>

\* one iteration of "Give everyone their priority seats"
Guaranteed ==
    /\ pc = "guaranteed"
    /\ i <= Len(requests)
    /\ LET request == requests[i]
       IN  IF SeatAllocationValid(request.regular, PRIORITY)
           THEN /\ requests' = [requests EXCEPT ![i] =
                       [allocate(request, SeatAllocation(request.regular, PRIORITY))
                           EXCEPT !.fulfilled = (request.extra = 0) \/ @]]
                /\ AVAILABLE' = [AVAILABLE EXCEPT ![PRIORITY] = @ - request.regular]
                /\ i' = i + 1
                /\ pc' = pc
           ELSE /\ pc' = "aborted"
                /\ UNCHANGED <<requests, AVAILABLE, i>>
    /\ UNCHANGED <<capacity, tickets, remaining, given, output>>

\* the call of _allocatePriority: its sort
EnterPriority ==
    /\ pc = "guaranteed"
    /\ i > Len(requests)
    /\ requests' = SortBy(requests, [k \in 1..Len(requests) |-> KeyExtra(requests[k])])
    /\ pc' = "priority"
    /\ i' = 1
    /\ UNCHANGED <<AVAILABLE, capacity, tickets, remaining, given, output>>

\* a variant of PriorityStep: grants the part of `extra` that still fits
PriorityStepPartial ==
    /\ pc = "priority"
    /\ i <= Len(requests)
    /\ LET request == requests[i]
           n == IF AVAILABLE[PRIORITY] >= request.extra
                THEN request.extra ELSE AVAILABLE[PRIORITY]
       IN  IF request.fulfilled \/ n <= 0
           THEN UNCHANGED <<requests, AVAILABLE>>
           ELSE /\ requests' = [requests EXCEPT ![i] =
                       [allocate(request, SeatAllocation(n, PRIORITY))
                           EXCEPT !.fulfilled = (n = request.extra)]]
                /\ AVAILABLE' = [AVAILABLE EXCEPT ![PRIORITY] = @ - n]
    /\ i' = i + 1
    /\ UNCHANGED <<capacity, tickets, remaining, given, pc, output>>

\* one iteration of the loop of _allocatePriority
PriorityStep ==
    /\ pc = "priority"
    /\ i <= Len(requests)
    /\ LET request == requests[i]
       IN  IF request.fulfilled \/ ~PriorityFits(request)
           THEN /\ i' = i + 1
                /\ UNCHANGED <<requests, AVAILABLE, pc>>
           ELSE IF SeatAllocationValid(request.extra, PRIORITY)
           THEN /\ requests' = [requests EXCEPT ![i] =
                       [allocate(request, SeatAllocation(request.extra, PRIORITY))
                           EXCEPT !.fulfilled = TRUE]]
                /\ AVAILABLE' = [AVAILABLE EXCEPT ![PRIORITY] = @ - request.extra]
                /\ i' = i + 1
                /\ pc' = pc
           ELSE /\ pc' = "aborted"
                /\ UNCHANGED <<requests, AVAILABLE, i>>
    /\ UNCHANGED <<capacity, tickets, remaining, given, output>>

\* the call of _allocateSecondary: its sort, the empty ticket map, the
\* running counter and the first test of the while loop
EnterSecondary ==
    /\ pc = "priority"
    /\ i > Len(requests)
    /\ requests' = SortBy(requests, [k \in 1..Len(requests) |-> KeyRequestTime(requests[k])])
    /\ tickets' = [id \in DOMAIN tickets |-> 0]
    /\ remaining' = AVAILABLE[LIMITED_VIEW] + AVAILABLE[SCREEN_ONLY]
    /\ given' = 0
    /\ i' = 1
    /\ pc' = IF LoopContinues(remaining') THEN "sweep" ELSE "limited"
    /\ UNCHANGED <<AVAILABLE, capacity, output>>

\* a variant of SweepStep: the sweep does not skip fulfilled requests
SweepStepNoSkip ==
    /\ pc = "sweep"
    /\ i <= Len(requests)
    /\ IF tickets[requests[i].studentID] < requests[i].extra
       THEN /\ tickets' = [tickets EXCEPT ![requests[i].studentID] = @ + 1]
            /\ remaining' = remaining - 1
            /\ given' = given + 1
       ELSE UNCHANGED <<tickets, remaining, given>>
    /\ i' = i + 1
    /\ UNCHANGED <<requests, AVAILABLE, capacity, pc, output>>

\* a variant of SweepStep: a request is handed all the tickets it still wants
\* in one visit
SweepStepGreedy ==
    /\ pc = "sweep"
    /\ i <= Len(requests)
    /\ LET request == requests[i]
           n == request.extra - tickets[request.studentID]
       IN  IF ~request.fulfilled /\ n > 0
           THEN /\ tickets' = [tickets EXCEPT ![request.studentID] = @ + n]
                /\ remaining' = remaining - n
                /\ given' = given + n
           ELSE UNCHANGED <<tickets, remaining, given>>
    /\ i' = i + 1
    /\ UNCHANGED <<requests, AVAILABLE, capacity, pc, output>>

\* one iteration of the for loop inside the while loop
SweepStep ==
    /\ pc = "sweep"
    /\ i <= Len(requests)
    /\ LET request == requests[i]
       IN  IF ~request.fulfilled /\ WantsTicket(request)
           THEN /\ tickets' = [tickets EXCEPT ![request.studentID] = @ + 1]
                /\ remaining' = remaining - 1
                /\ given' = given + 1
           ELSE UNCHANGED <<tickets, remaining, given>>
    /\ i' = i + 1
    /\ UNCHANGED <<requests, AVAILABLE, capacity, pc, output>>

\* the end of a sweep: break when nothing was given, else test the loop
\* condition and start the next sweep or leave the loop
SweepEnd ==
    /\ pc = "sweep"
    /\ i > Len(requests)
    /\ pc' = IF given # 0 /\ LoopContinues(remaining) THEN "sweep" ELSE "limited"
    /\ given' = IF pc' = "sweep" THEN 0 ELSE given
    /\ i' = 1
    /\ UNCHANGED <<requests, AVAILABLE, capacity, tickets, remaining, output>>

\* a variant of LimitedStep: a request whose tickets do not fit is given the
\* Limited View seats that are left and waits for the Screen Only pass
LimitedStepSplit ==
    /\ pc = "limited"
    /\ i <= Len(requests)
    /\ LET request == requests[i]
           fits == AVAILABLE[LIMITED_VIEW] >= tickets[request.studentID]
           n == IF fits THEN tickets[request.studentID] ELSE AVAILABLE[LIMITED_VIEW]
       IN  IF request.fulfilled \/ n <= 0
           THEN UNCHANGED <<requests, AVAILABLE>>
           ELSE /\ requests' = [requests EXCEPT ![i] =
                       [allocate(request, SeatAllocation(n, LIMITED_VIEW))
                           EXCEPT !.fulfilled = fits]]
                /\ AVAILABLE' = [AVAILABLE EXCEPT ![LIMITED_VIEW] = @ - n]
    /\ i' = i + 1
    /\ UNCHANGED <<capacity, tickets, remaining, given, pc, output>>

\* one iteration of "Allocate seats in limited view"
LimitedStep ==
    /\ pc = "limited"
    /\ i <= Len(requests)
    /\ LET request == requests[i]
           n == tickets[request.studentID]
       IN  IF request.fulfilled \/ ~LimitedFits(request)
           THEN /\ i' = i + 1
                /\ UNCHANGED <<requests, AVAILABLE, pc>>
           ELSE IF SeatAllocationValid(n, LIMITED_VIEW)
           THEN /\ requests' = [requests EXCEPT ![i] =
                       [allocate(request, SeatAllocation(n, LIMITED_VIEW))
                           EXCEPT !.fulfilled = TRUE]]
                /\ AVAILABLE' = [AVAILABLE EXCEPT ![LIMITED_VIEW] = @ - n]
                /\ i' = i + 1
                /\ pc' = pc
           ELSE /\ pc' = "aborted"
                /\ UNCHANGED <<requests, AVAILABLE, i>>
    /\ UNCHANGED <<capacity, tickets, remaining, given, output>>

\* the Limited View pass is over, the Screen Only pass starts
EnterScreen ==
    /\ pc = "limited"
    /\ i > Len(requests)
    /\ pc' = "screen"
    /\ i' = 1
    /\ UNCHANGED <<requests, AVAILABLE, capacity, tickets, remaining, given, output>>

\* a variant of ScreenStep: a request whose tickets do not fit is given the
\* Screen Only seats that are left and stays unfulfilled
ScreenStepPartial ==
    /\ pc = "screen"
    /\ i <= Len(requests)
    /\ LET request == requests[i]
           fits == AVAILABLE[SCREEN_ONLY] >= tickets[request.studentID]
           n == IF fits THEN tickets[request.studentID] ELSE AVAILABLE[SCREEN_ONLY]
       IN  IF request.fulfilled \/ n <= 0
           THEN UNCHANGED <<requests, AVAILABLE>>
           ELSE /\ requests' = [requests EXCEPT ![i] =
                       [allocate(request, SeatAllocation(n, SCREEN_ONLY))
                           EXCEPT !.fulfilled = fits]]
                /\ AVAILABLE' = [AVAILABLE EXCEPT ![SCREEN_ONLY] = @ - n]
    /\ i' = i + 1
    /\ UNCHANGED <<capacity, tickets, remaining, given, pc, output>>

\* one iteration of "Allocate seats in screen-only view"
ScreenStep ==
    /\ pc = "screen"
    /\ i <= Len(requests)
    /\ LET request == requests[i]
           n == tickets[request.studentID]
       IN  IF request.fulfilled \/ ~ScreenFits(request)
           THEN /\ i' = i + 1
                /\ UNCHANGED <<requests, AVAILABLE, pc>>
           ELSE IF SeatAllocationValid(n, SCREEN_ONLY)
           THEN /\ requests' = [requests EXCEPT ![i] =
                       [allocate(request, SeatAllocation(n, SCREEN_ONLY))
                           EXCEPT !.fulfilled = TRUE]]
                /\ AVAILABLE' = [AVAILABLE EXCEPT ![SCREEN_ONLY] = @ - n]
                /\ i' = i + 1
                /\ pc' = pc
           ELSE /\ pc' = "aborted"
                /\ UNCHANGED <<requests, AVAILABLE, i>>
    /\ UNCHANGED <<capacity, tickets, remaining, given, output>>

\* _allocateSecondary returns: the output sort and one collapsed row a request
Output ==
    /\ pc = "screen"
    /\ i > Len(requests)
    /\ requests' = SortBy(requests, [k \in 1..Len(requests) |-> KeyTotal(requests[k])])
    /\ output' = [k \in 1..Len(requests) |-> collapse(requests'[k])]
    /\ pc' = "done"
    /\ UNCHANGED <<AVAILABLE, capacity, tickets, remaining, given, i>>

Next ==
    \/ Guaranteed
    \/ EnterPriority
    \/ PriorityStep
    \/ EnterSecondary
    \/ SweepStep
    \/ SweepEnd
    \/ LimitedStep
    \/ EnterScreen
    \/ ScreenStep
    \/ Output

Spec == Init /\ [][Next]_vars

\* the script is one thread that runs until it ends: a step that can be
\* taken is taken
FairSpec == Spec /\ WF_vars(Next)

(* --------------------------- derived notions --------------------------- *)

Indices == 1..Len(requests)

StudentIDs == DOMAIN tickets

RECURSIVE SumOver(_, _)
\* the sum of f[x] over the finite set S
SumOver(S, f) ==
    IF S = {} THEN 0
    ELSE LET x == CHOOSE y \in S : TRUE
         IN  f[x] + SumOver(S \ {x}, f)

\* the request of a student in a list
ById(list, id) == list[CHOOSE k \in 1..Len(list) : list[k].studentID = id]

\* all seats a request holds
TotalSeats(request) ==
    SumSeats(request.allocations, PRIORITY)
    + SumSeats(request.allocations, LIMITED_VIEW)
    + SumSeats(request.allocations, SCREEN_ONLY)

\* the guaranteed allocation of a request
GuaranteedOf(request) == [seats |-> request.regular, location |-> PRIORITY]

SumRegular == SumOver(Indices, [k \in Indices |-> requests[k].regular])

TicketSum == SumOver(StudentIDs, tickets)

Unfulfilled == {k \in Indices : ~requests[k].fulfilled}

\* the guaranteed stage is over
PastGuaranteed == pc # "guaranteed" \/ i > Len(requests)

\* _allocatePriority has finished its loop
PastPriority == pc \notin {"guaranteed", "priority"} \/ (pc = "priority" /\ i > Len(requests))

\* the rationing loop has just ended and no commit pass has acted yet
LoopJustEnded == pc = "limited" /\ i = 1

\* a request that was fulfilled before rationing holds no Limited View or
\* Screen Only allocation
FulfilledEarly(request) ==
    /\ request.fulfilled
    /\ SumSeats(request.allocations, LIMITED_VIEW) = 0
    /\ SumSeats(request.allocations, SCREEN_ONLY) = 0

Min(a, b) == IF a <= b THEN a ELSE b

(* -------------------------------- claims -------------------------------- *)

\* C1: capacity exhaustion is never an error: whatever the valid requests and
\* the non-negative starting capacities, no stage trips an assertion, so the
\* run never aborts.
C1_NoAssertionTrips == pc # "aborted"

\* C2 as stated: in every state, a request whose fulfilled flag is true holds
\* exactly regular + extra seats over the three tiers.
C2_FulfilledHoldsAll ==
    \A k \in Indices :
        requests[k].fulfilled
            => TotalSeats(requests[k]) = requests[k].regular + requests[k].extra

\* C2 as amended: a request fulfilled by the guaranteed or the priority stage
\* holds exactly regular + extra seats; a request fulfilled by a commit pass
\* holds regular + its ticket count, the ticket count lying in 1..extra.
C2_FulfilledHoldsGranted ==
    \A k \in Indices :
        LET r == requests[k]
            t == tickets[r.studentID]
        IN  r.fulfilled =>
               IF FulfilledEarly(r)
               THEN TotalSeats(r) = r.regular + r.extra
               ELSE /\ TotalSeats(r) = r.regular + t
                    /\ 1 <= t /\ t <= r.extra

C2_Witness ==
    /\ pc = "done"
    /\ \E k \in Indices :
          /\ requests[k].fulfilled /\ ~FulfilledEarly(requests[k])
          /\ tickets[requests[k].studentID] < requests[k].extra
    /\ \E k \in Indices :
          FulfilledEarly(requests[k]) /\ Len(requests[k].allocations) = 2

\* Scenario C: the rationing loop ran with exactly two unfulfilled requests,
\* each with extra = 3, and a combined Limited View + Screen Only capacity of 5
ScenarioC ==
    /\ LoopJustEnded
    /\ Cardinality(Unfulfilled) = 2
    /\ \A k \in Unfulfilled : requests[k].extra = 3
    /\ AVAILABLE[LIMITED_VIEW] + AVAILABLE[SCREEN_ONLY] = 5

\* C3 as stated: in Scenario C the two ticket counters sum to exactly 5 when
\* the loop ends.
C3_ScenarioC_Five == ScenarioC => TicketSum = 5

\* C3 as amended: in Scenario C the third sweep starts with one seat left and
\* is completed for both requests, so each counter ends at 3, the counters
\* sum to 6 and the running counter ends at -1.
C3_ScenarioC_Six ==
    ScenarioC =>
        /\ TicketSum = 6
        /\ \A k \in Unfulfilled : tickets[requests[k].studentID] = 3
        /\ remaining = -1

C3_Witness == ScenarioC /\ Len(requests) = 3

\* C4 as stated: after _allocatePriority has finished, remaining Priority
\* capacity is non-negative.
C4_PriorityNonNegative == PastPriority => AVAILABLE[PRIORITY] >= 0

\* C4 as amended: after _allocatePriority has finished, remaining Priority
\* capacity is at least min(0, starting capacity - sum of regular): it is
\* non-negative whenever the starting capacity covers the guaranteed seats,
\* and when it does not the overflow stage takes nothing more from the pool.
C4_PriorityNotLowered ==
    PastPriority =>
        AVAILABLE[PRIORITY] >= Min(0, capacity[PRIORITY] - SumRegular)

C4_Witness ==
    /\ pc = "priority" /\ i > Len(requests)
    /\ AVAILABLE[PRIORITY] = 0
    /\ \E k \in Indices : Len(requests[k].allocations) = 2
    /\ Unfulfilled # {}

\* C5: in both commit passes every Limited View or Screen Only allocation
\* granted is no larger than that tier's remaining capacity at the moment of
\* the grant, and both capacities are non-negative before and after each step.
C5_CommitWithinCapacity ==
    [][ /\ \A id \in StudentIDs :
             LET before == ById(requests, id).allocations
                 after  == ById(requests', id).allocations
             IN  (pc \in {"limited", "screen"} /\ after # before) =>
                    /\ Len(after) = Len(before) + 1
                    /\ after[Len(after)].location \in {LIMITED_VIEW, SCREEN_ONLY}
                    /\ after[Len(after)].seats
                          <= AVAILABLE[after[Len(after)].location]
        /\ \A loc \in {LIMITED_VIEW, SCREEN_ONLY} :
             AVAILABLE[loc] >= 0 /\ AVAILABLE'[loc] >= 0 ]_vars

C5_Witness ==
    /\ pc = "done"
    /\ \E k \in Indices : SumSeats(requests[k].allocations, LIMITED_VIEW) > 0
    /\ \E k \in Indices : SumSeats(requests[k].allocations, SCREEN_ONLY) > 0
    /\ AVAILABLE[LIMITED_VIEW] > 0
    /\ Unfulfilled # {}

\* C6: the guaranteed stage gives each request it has processed exactly one
\* allocation, of `regular` Priority seats, whatever the capacity left, and
\* has lowered Priority capacity by the sum of their `regular`; when the
\* stage is over and nothing else has run, that is every request.
C6_GuaranteedGrant ==
    pc = "guaranteed" =>
        /\ \A k \in Indices :
             requests[k].allocations =
                 IF k < i THEN <<GuaranteedOf(requests[k])>> ELSE <<>>
        /\ AVAILABLE[PRIORITY] =
             capacity[PRIORITY]
             - SumOver({k \in Indices : k < i}, [k \in Indices |-> requests[k].regular])
        /\ AVAILABLE[LIMITED_VIEW] = capacity[LIMITED_VIEW]
        /\ AVAILABLE[SCREEN_ONLY] = capacity[SCREEN_ONLY]

C6_Witness ==
    /\ pc = "guaranteed" /\ i > Len(requests)
    /\ Len(requests) = 2
    /\ AVAILABLE[PRIORITY] < 0
    /\ \A k \in Indices : requests[k].allocations = <<GuaranteedOf(requests[k])>>

\* C7: each step of _allocatePriority is all-or-nothing: a request either
\* gets one more Priority allocation of exactly `extra` seats while it was
\* unfulfilled, becomes fulfilled and lowers Priority capacity by `extra`, or
\* it and the pool are left as they were.
C7_AllOrNothing ==
    [][ pc = "priority" =>
          LET changed == {id \in StudentIDs : ById(requests', id) # ById(requests, id)}
          IN  /\ Cardinality(changed) <= 1
              /\ \A id \in changed :
                   LET r == ById(requests, id)
                   IN  /\ ~r.fulfilled
                       /\ ById(requests', id) =
                            [r EXCEPT !.fulfilled = TRUE,
                                      !.allocations =
                                          Append(@, [seats |-> r.extra,
                                                     location |-> PRIORITY])]
                       /\ AVAILABLE' = [AVAILABLE EXCEPT ![PRIORITY] = @ - r.extra]
              /\ changed = {} => AVAILABLE' = AVAILABLE ]_vars

C7_Witness ==
    /\ pc = "priority" /\ i > Len(requests)
    /\ AVAILABLE[PRIORITY] > 0
    /\ \E k \in Indices : Len(requests[k].allocations) = 2
    /\ \E k \in Unfulfilled : requests[k].allocations = <<GuaranteedOf(requests[k])>>

\* the requests that enter _allocatePriority unfulfilled
EnteredOverflow == {k \in Indices : requests[k].extra # 0}

\* Priority capacity when _allocatePriority is entered
OverflowCapacity == capacity[PRIORITY] - SumRegular

\* the sizes of the sets of entering requests whose extras fit the capacity
FittingSizes ==
    { Cardinality(S) : S \in { T \in SUBSET EnteredOverflow :
          SumOver(T, [k \in Indices |-> requests[k].extra]) <= OverflowCapacity } }

\* the requests _allocatePriority has fulfilled
OverflowFulfilled ==
    {k \in EnteredOverflow :
        requests[k].fulfilled /\ Len(requests[k].allocations) = 2}

\* C8: when _allocatePriority has finished, the number of requests it
\* fulfilled is the largest size of a set of entering requests whose extras
\* sum to at most the capacity at stage entry (0 when that capacity is
\* negative and no set fits).
C8_MostRequestsFulfilled ==
    (pc = "priority" /\ i > Len(requests)) =>
        /\ \A n \in FittingSizes : n <= Cardinality(OverflowFulfilled)
        /\ Cardinality(OverflowFulfilled) \in FittingSizes \union {0}

C8_Witness ==
    /\ pc = "priority" /\ i > Len(requests)
    /\ Len(requests) = 3
    /\ Cardinality(OverflowFulfilled) = 2
    /\ Unfulfilled # {}
    /\ AVAILABLE[PRIORITY] > 0

\* C9: at every point of the rationing loop and after it, every ticket
\* counter lies in 0..extra, and the counter of a request fulfilled before
\* rationing is 0.
C9_TicketsWithinExtra ==
    \A k \in Indices :
        /\ 0 <= tickets[requests[k].studentID]
        /\ tickets[requests[k].studentID] <= requests[k].extra
        /\ FulfilledEarly(requests[k]) => tickets[requests[k].studentID] = 0

C9_Witness ==
    /\ LoopJustEnded
    /\ remaining < 0
    /\ \E k \in Indices : FulfilledEarly(requests[k]) /\ requests[k].extra > 0
    /\ \E k \in Unfulfilled : tickets[requests[k].studentID] = requests[k].extra
    /\ \E k \in Unfulfilled :
          /\ tickets[requests[k].studentID] > 0
          /\ tickets[requests[k].studentID] < requests[k].extra

\* C10: a request still unfulfilled when the run ends holds only its
\* guaranteed allocation, and its row is [studentID, regular, extra, regular, 0, 0].
C10_UnfulfilledKeepsGuaranteed ==
    pc \in {"done", "aborted"} =>
        \A k \in Unfulfilled :
            /\ requests[k].allocations = <<GuaranteedOf(requests[k])>>
            /\ collapse(requests[k]) =
                 <<requests[k].studentID, requests[k].regular, requests[k].extra,
                   requests[k].regular, 0, 0>>
            /\ pc = "done" => output[k] = collapse(requests[k])

C10_Witness ==
    /\ pc = "done"
    /\ \E k \in Unfulfilled : tickets[requests[k].studentID] > 0
    /\ \E k \in Indices : SumSeats(requests[k].allocations, SCREEN_ONLY) > 0
    /\ \E k \in Indices : FulfilledEarly(requests[k])

\* C11: a request with extra = 0 is fulfilled as soon as the guaranteed stage
\* has processed it, and from then on; a request the stage has not reached
\* yet, or one with extra # 0, is not fulfilled while the stage is in control.
C11_NoExtraFulfilledAtOnce ==
    \A k \in Indices :
        /\ (requests[k].extra = 0 /\ (pc # "guaranteed" \/ k < i))
              => requests[k].fulfilled
        /\ (pc = "guaranteed" /\ (k >= i \/ requests[k].extra # 0))
              => ~requests[k].fulfilled

C11_Witness ==
    /\ pc = "guaranteed" /\ i = 2 /\ Len(requests) = 2
    /\ requests[1].extra = 0 /\ requests[1].fulfilled
    /\ requests[2].extra = 0 /\ ~requests[2].fulfilled

\* the seats of a request in one tier, summed over the positions of its
\* allocation list
TierSeats(request, location) ==
    LET a == request.allocations
    IN  SumOver({j \in 1..Len(a) : a[j].location = location},
                [j \in 1..Len(a) |-> a[j].seats])

\* C13: writing the rows (the calls of collapse) changes no request's
\* allocations or fulfilled flag and not the capacity pool, and each row is
\* [studentID, regular, extra, p, l, s] with p, l, s the sums of the seats
\* of the request's Priority, Limited View and Screen Only allocations (0
\* when it has none); the row is a function of the unchanged request, so a
\* second call returns the same row.
C13_CollapseReadOnly ==
    [][ (pc = "screen" /\ pc' = "done") =>
          /\ AVAILABLE' = AVAILABLE
          /\ tickets' = tickets
          /\ \A id \in StudentIDs : ById(requests', id) = ById(requests, id)
          /\ Len(output') = Len(requests)
          /\ \A k \in 1..Len(requests') :
                LET r == requests'[k]
                IN  /\ output'[k] =
                         <<r.studentID, r.regular, r.extra,
                           TierSeats(r, PRIORITY),
                           TierSeats(r, LIMITED_VIEW),
                           TierSeats(r, SCREEN_ONLY)>>
                    /\ collapse(r) = output'[k] ]_vars

C13_Witness ==
    /\ pc = "done"
    /\ \E k \in Indices :
          /\ Len(requests[k].allocations) = 2
          /\ output[k][4] = requests[k].regular + requests[k].extra
    /\ \E k \in Indices : output[k][5] > 0 /\ output[k][6] = 0
    /\ \E k \in Indices : output[k][6] > 0 /\ output[k][5] = 0

\* the rationing loop has been entered (it may have ended since)
InOrPastRationing == pc \in {"sweep", "limited", "screen", "done", "aborted"}

\* the largest extra of the list, 0 for the empty list
LargestExtra ==
    IF Indices = {} THEN 0
    ELSE LET k == CHOOSE m \in Indices :
                     \A n \in Indices : requests[n].extra <= requests[m].extra
         IN  requests[k].extra

\* C14: rationing is level: there is one number K of completed sweeps such
\* that every request that entered rationing unfulfilled has exactly
\* min(extra, K) tickets when the loop has ended (inside a sweep the
\* requests already visited have min(extra, K + 1)).
C14_LevelTickets ==
    InOrPastRationing =>
        \E K \in 0..(LargestExtra + 1) :
            \A k \in Indices :
                ~FulfilledEarly(requests[k]) =>
                    tickets[requests[k].studentID] =
                        Min(requests[k].extra,
                            IF pc = "sweep" /\ k < i THEN K + 1 ELSE K)

C14_Witness ==
    /\ LoopJustEnded
    /\ \E a \in Unfulfilled, b \in Unfulfilled :
          /\ tickets[requests[a].studentID] = requests[a].extra
          /\ tickets[requests[a].studentID] < tickets[requests[b].studentID]
          /\ tickets[requests[b].studentID] < requests[b].extra

\* the most tickets any request holds: the number of sweeps that handed out
\* a ticket so far
MostTickets ==
    IF StudentIDs = {} THEN 0
    ELSE tickets[CHOOSE a \in StudentIDs : \A b \in StudentIDs : tickets[b] <= tickets[a]]

\* the combined secondary capacity the rationing loop started with
LoopCapacity == remaining + TicketSum

Max(a, b) == IF a >= b THEN a ELSE b

\* the sweeps performed so far (at most one hands out nothing, the last)
\* stay within max(combined capacity, largest extra) + 1
C15_SweepBound ==
    InOrPastRationing =>
        MostTickets + 1 <= Max(LoopCapacity, LargestExtra) + 1

\* the rationing loop, once entered, is left
C15_LoopEnds == (pc = "sweep") ~> (pc = "limited")

\* the run ends, with the rows written or with an assertion failure
C15_RunEnds == <>(pc \in {"done", "aborted"})

\* C15: the rationing loop always terminates within
\* max(combined capacity, largest extra) + 1 sweeps, and the whole pipeline
\* reaches its final state, the rows written.
C15_PipelineCompletes ==
    /\ []C15_SweepBound
    /\ C15_LoopEnds
    /\ <>(pc = "done")

\* the positions of a request's Limited View and Screen Only allocations
SecondaryAllocations(request) ==
    {j \in 1..Len(request.allocations) :
        request.allocations[j].location \in {LIMITED_VIEW, SCREEN_ONLY}}

\* a request holds at most one secondary allocation, of exactly its ticket
\* count; a Screen Only holder's tickets exceed the Limited View seats left
NeverSplit ==
    \A k \in Indices :
        LET r == requests[k]
        IN  /\ Cardinality(SecondaryAllocations(r)) <= 1
            /\ \A j \in SecondaryAllocations(r) :
                  r.allocations[j].seats = tickets[r.studentID]
            /\ SumSeats(r.allocations, SCREEN_ONLY) > 0
                  => tickets[r.studentID] > AVAILABLE[LIMITED_VIEW]

\* C16: secondary seats are never split or trimmed: a request gets at most
\* one commit allocation, in one of Limited View or Screen Only, of exactly
\* its ticket count; the Limited View pass leaves a request unfulfilled only
\* when its ticket count exceeds the Limited View capacity left at that
\* moment, and Screen Only seats go only, in the Screen Only pass, to a
\* request left unfulfilled that way.
C16_NeverSplitOrTrimmed ==
    [][ /\ NeverSplit
        /\ NeverSplit'
        /\ ( /\ pc = "limited" /\ pc' = "limited" /\ i <= Len(requests)
             /\ ~requests[i].fulfilled /\ ~requests'[i].fulfilled )
              => tickets[requests[i].studentID] > AVAILABLE[LIMITED_VIEW]
        /\ \A id \in StudentIDs :
              SumSeats(ById(requests', id).allocations, SCREEN_ONLY)
                  # SumSeats(ById(requests, id).allocations, SCREEN_ONLY)
              => /\ pc = "screen"
                 /\ ~ById(requests, id).fulfilled
                 /\ tickets[id] > AVAILABLE[LIMITED_VIEW] ]_vars

C16_Witness ==
    /\ pc = "done"
    /\ AVAILABLE[LIMITED_VIEW] > 0
    /\ \E k \in Indices : SumSeats(requests[k].allocations, SCREEN_ONLY) >= 2
    /\ \E k \in Indices : SumSeats(requests[k].allocations, LIMITED_VIEW) > 0

\* the requests that entered rationing unfulfilled
EnteredRationing == {k \in Indices : ~FulfilledEarly(requests[k])}

\* the combined Limited View + Screen Only capacity at loop start: no
\* earlier stage takes seats from these tiers
StartSecondary == capacity[LIMITED_VIEW] + capacity[SCREEN_ONLY]

\* C17: with n requests entering rationing unfulfilled and combined capacity
\* R at loop start, the tickets issued (R minus the running counter) are 0
\* when R <= 0 and at most R + n - 1 when R >= 1, where the running counter
\* is never below 1 - n.
C17_OvershootBounded ==
    InOrPastRationing =>
        LET n == Cardinality(EnteredRationing)
            R == StartSecondary
        IN  /\ TicketSum = R - remaining
            /\ R <= 0 => TicketSum = 0
            /\ R >= 1 => (TicketSum <= R + n - 1 /\ remaining >= 1 - n)

C17_Witness ==
    /\ LoopJustEnded
    /\ Cardinality(EnteredRationing) = 3
    /\ StartSecondary = 1
    /\ remaining = 1 - 3
    /\ TicketSum = 3

\* the seats of all requests in one tier
SeatsGranted(location) ==
    SumOver(Indices, [k \in Indices |-> SumSeats(requests[k].allocations, location)])

\* C18: seats are conserved per tier: in every state the starting capacity
\* of each tier equals its remaining capacity plus the seats of all
\* allocations in that tier, for Priority also when the remainder is
\* negative.
C18_SeatsConserved ==
    \A loc \in LOCATIONS : capacity[loc] = AVAILABLE[loc] + SeatsGranted(loc)

C18_Witness ==
    /\ pc = "done"
    /\ AVAILABLE[PRIORITY] < 0
    /\ SeatsGranted(LIMITED_VIEW) > 0
    /\ SeatsGranted(SCREEN_ONLY) > 0

\* C19: fulfilled freezes a request: a step leaves a fulfilled request as it
\* is (flag, allocations) and gives it no ticket; the capacity pool changes
\* only in a step that changes an unfulfilled request; and no request ever
\* holds more than two allocations.
C19_FulfilledFreezes ==
    [][ /\ \A id \in StudentIDs :
              ById(requests, id).fulfilled =>
                  /\ ById(requests', id) = ById(requests, id)
                  /\ tickets'[id] = tickets[id]
        /\ AVAILABLE' # AVAILABLE =>
              \E id \in StudentIDs :
                  /\ ~ById(requests, id).fulfilled
                  /\ ById(requests', id) # ById(requests, id)
        /\ \A k \in Indices :
              Len(requests[k].allocations) <= 2 /\ Len(requests'[k].allocations) <= 2
      ]_vars

C19_Witness ==
    /\ pc = "done"
    /\ \E k \in Indices :
          /\ FulfilledEarly(requests[k]) /\ requests[k].extra > 0
          /\ Len(requests[k].allocations) = 2
          /\ tickets[requests[k].studentID] = 0
    /\ \E k \in Indices : SumSeats(requests[k].allocations, LIMITED_VIEW) > 0
    /\ \E k \in Indices : SumSeats(requests[k].allocations, SCREEN_ONLY) > 0

====
